---- MODULE Spec2Model ----
(***************************************************************************)
(* Model of the per-user vector document index of the vector service       *)
(* (src/vector-service/main.py): the two persisted files of every user,    *)
(* faiss.index and metadata.json, and the handlers that read and write     *)
(* them: upload_document, search_documents, list_documents and             *)
(* delete_document. The auth service, the gateway, the user service and    *)
(* the chat service are modelled beside it, each with its own state.       *)
(*                                                                         *)
(* Spec        vector service: one request at a time, each handler one     *)
(*             action.                                                     *)
(* SpecUsers   the same for several usernames, without failures.           *)
(* SpecSplit   uploads of plain-text files cut by the text splitter.       *)
(* SpecConc    two requests of one user in flight, interleaved at the file *)
(*             operations of load_user_index / save_user_index /           *)
(*             os.remove.                                                  *)
(* SpecAuth    auth service: login, register, verify, the clock, restart.  *)
(* SpecGateway gateway: a request cut at the call of /verify and at the    *)
(*             call downstream.                                            *)
(* SpecHistory user service: save_chat_message, get_chat_history,          *)
(*             delete_chat_session.                                        *)
(* SpecChat    chat service: chat and clear_session over Redis and         *)
(*             memory_store.                                               *)
(***************************************************************************)
EXTENDS Integers, Sequences, FiniteSets, TLC

\* ------------------------------------------------------------------ bounds
\* uuid4 values handed out by upload_document
MaxDocs == 3
\* largest top_k a search request carries
MaxTopK == 2
\* requests one worker serves in SpecConc
MaxServed == 2
\* requests of one behaviour that meet a failure of the embedding backend or
\* of the file system
MaxFaults == 1
\* restarts of the service in one behaviour
MaxRestarts == 1

\* the directories under STORAGE_PATH that hold a user's two files
Users == {"u", "v"}
\* the usernames that requests carry: any string of the query or of the body
Usernames == {"u", "v", "./v"}
\* get_user_storage_path: os.path.join(STORAGE_PATH, username), as the file
\* system resolves it ("./v" names the directory "v")
GetUserStoragePath(username) == IF username = "./v" THEN "v" ELSE username
\* chunk contents (texts) the splitter can return, and query texts
Texts == {1, 2}
\* widths of the vectors the embedding backend can be set up to return
Dims == {1, 2}
DocIds == 1..MaxDocs
TopKs == (0 - 1)..MaxTopK

\* what split_text returns for the texts that are uploaded: no chunk (an
\* empty text), one chunk, two chunks of different content
ChunkTexts == {<<>>, <<1>>, <<2, 1>>}

\* ------------------------------------------------------- embedding backend
\* embeddings.embed_documents / embed_query: a fixed function of the text,
\* one vector of the backend's width per text, order preserved.
Embed(t, d) == [i \in 1..d |-> IF i % 2 = 1 THEN t ELSE 3 - t]

EmbedAll(texts, d) == [i \in 1..Len(texts) |-> Embed(texts[i], d)]

\* ------------------------------------------------------------ file contents
\* faiss.index: absent, unreadable, or an IndexFlatIP of width d with rows
AbsentIndex == [state |-> "absent", d |-> 0, rows |-> <<>>]
CorruptIndex == [state |-> "corrupt", d |-> 0, rows |-> <<>>]
\* the value None that load_user_index returns for the index
NoneIndex == [state |-> "none", d |-> 0, rows |-> <<>>]
IndexFlatIP(d) == [state |-> "ok", d |-> d, rows |-> <<>>]

\* metadata.json: absent, unreadable, or {"documents": {...}, "chunks": [...]}
NoDocuments == [x \in {} |-> 0]
AbsentMetadata == [state |-> "absent", documents |-> NoDocuments, chunks |-> <<>>]
CorruptMetadata == [state |-> "corrupt", documents |-> NoDocuments, chunks |-> <<>>]
\* the {} that load_user_index returns beside None: no "documents", no "chunks"
EmptyDict == [state |-> "empty", documents |-> NoDocuments, chunks |-> <<>>]
NewMetadata == [state |-> "ok", documents |-> NoDocuments, chunks |-> <<>>]

VARIABLES
  embeddings,     \* TRUE iff OPENAI_API_KEY was set when the service started
  embDim,         \* width of the vectors the embedding backend returns
  indexFile,      \* user -> contents of <STORAGE_PATH>/<user>/faiss.index
  metadataFile,   \* user -> contents of <STORAGE_PATH>/<user>/metadata.json
  nextId,         \* the next uuid4 value
  last,           \* the request that completed last, and its response
  faults,         \* requests that met a failure so far
  restarts,       \* restarts so far
  live,           \* directory -> ids whose upload answered 200 and that no
                  \* delete answered 200 for since
  pc,             \* SpecConc: request -> position in its handler
  req,            \* SpecConc: request -> its locals
  \* auth service
  fake_users_db,  \* username -> user record
  now,            \* the clock, in minutes
  issued,         \* the tokens /login returned, each with the username that logged in
  credentials,    \* username -> the password the user was registered with
  authLast,       \* the auth request that completed last, and its response
  \* gateway
  gw,             \* the gateway request in flight, or the one that completed last
  \* user service
  tables,         \* the rows of users, chat_sessions and chat_messages
  savedBy,        \* chat_messages.id -> the username of the save that made it
  userLast,       \* the user-service request that completed last
  \* chat service
  chatConfig,     \* OPENAI_API_KEY and redis_client as set when the service started
  redis,          \* session_id -> the value of the key memory:<session_id>
  memory_store,   \* session_id -> the in-process conversation memory
  chatLast        \* the chat request, or the event, that completed last

vectorVars == <<embeddings, embDim, indexFile, metadataFile, nextId, last, faults,
                restarts, live, pc, req>>
authVars == <<fake_users_db, now, issued, credentials, authLast>>
gatewayVars == <<gw>>
userVars == <<tables, savedBy, userLast>>
chatVars == <<chatConfig, redis, memory_store, chatLast>>
\* what a request to the vector service leaves alone
otherServices == <<authVars, gatewayVars, userVars, chatVars>>

vars == <<vectorVars, authVars, gatewayVars, userVars, chatVars>>

\* ---------------------------------------------------------- text splitter
\* text_splitter = RecursiveCharacterTextSplitter(chunk_size=1000,
\* chunk_overlap=200, length_function=len), with the defaults of the class:
\* separators ["\n\n", "\n", " ", ""], keep_separator, strip_whitespace.
chunk_size == 1000
chunk_overlap == 200

\* The plain texts that are split. A text is told by its structure, not by
\* its letters:
\*   run         lens[1] characters, none of them whitespace
\*   paragraphs  runs of lens[i] such characters, joined by "\n\n"
\*   blank       lens[1] spaces
Run(n) == [kind |-> "run", lens |-> <<n>>]
Paragraphs(lens) == [kind |-> "paragraphs", lens |-> lens]
Blank(n) == [kind |-> "blank", lens |-> <<n>>]
NoText == [kind |-> "none", lens |-> <<>>]

RECURSIVE SumFrom(_, _)
SumFrom(lens, i) == IF i > Len(lens) THEN 0 ELSE lens[i] + SumFrom(lens, i + 1)

\* len(text)
TextLength(text) ==
  IF text.kind = "paragraphs"
  THEN SumFrom(text.lens, 1) + 2 * (Len(text.lens) - 1)
  ELSE SumFrom(text.lens, 1)

\* list(text), the split on the separator "": the characters from offset
\* `at` on, taken Block at a time (chunk_size and chunk_overlap are multiples
\* of Block, so that merging the blocks cuts where merging the characters does)
Block == 100

RECURSIVE Characters(_, _, _)
Characters(at, n, blank) ==
  IF n <= 0 THEN <<>>
  ELSE <<[at |-> at, len |-> IF n < Block THEN n ELSE Block, lead |-> 0,
          blank |-> blank]>>
       \o Characters(at + Block, n - Block, blank)

\* the splits on "\n\n" with the separator kept at the head of the split that
\* follows it: [at, len] of the split, `lead` whitespace characters at its head
RECURSIVE ParagraphSplits(_, _, _)
ParagraphSplits(lens, i, at) ==
  IF i > Len(lens) THEN <<>>
  ELSE LET lead == IF i = 1 THEN 0 ELSE 2
       IN  <<[at |-> at, len |-> lens[i] + lead, lead |-> lead, blank |-> FALSE]>>
           \o ParagraphSplits(lens, i + 1, at + lens[i] + lead)

\* _split_text_with_regex on the first separator of the list that the text
\* holds: "\n\n" for paragraphs, " " for a blank text (every split is one
\* space), "" for a run
SplitOnSeparator(text) ==
  CASE text.kind = "paragraphs" -> ParagraphSplits(text.lens, 1, 0)
    [] text.kind = "blank" -> Characters(0, text.lens[1], TRUE)
    [] OTHER -> Characters(0, TextLength(text), FALSE)

Total(current_doc) ==
  SumFrom([i \in 1..Len(current_doc) |-> current_doc[i].len], 1)

\* a merge that carries nothing over from the chunk it has emitted
PopAll(total, len) == total > 0

\* the condition of the while loop of _merge_splits (the joining separator
\* is "", as the separators are kept in the splits)
KeepPopping(total, len) ==
  total > chunk_overlap \/ (total + len > chunk_size /\ total > 0)

RECURSIVE PopFront(_, _)
PopFront(current_doc, len) ==
  IF KeepPopping(Total(current_doc), len)
  THEN PopFront(Tail(current_doc), len)
  ELSE current_doc

\* _join_docs: the splits joined and stripped; None (no chunk) when nothing
\* is left. A chunk is the span [at, at + len) of the text.
JoinDocs(current_doc) ==
  IF current_doc = <<>> \/ \A i \in 1..Len(current_doc) : current_doc[i].blank
  THEN <<>>
  ELSE <<[at |-> current_doc[1].at + current_doc[1].lead,
          len |-> Total(current_doc) - current_doc[1].lead]>>

\* _merge_splits: the loop over the splits from the i-th on
RECURSIVE MergeSplits(_, _, _, _)
MergeSplits(splits, i, current_doc, docs) ==
  IF i > Len(splits) THEN docs \o JoinDocs(current_doc)
  ELSE IF Total(current_doc) + splits[i].len > chunk_size /\ current_doc # <<>>
       THEN MergeSplits(splits, i + 1,
                        Append(PopFront(current_doc, splits[i].len), splits[i]),
                        docs \o JoinDocs(current_doc))
       ELSE MergeSplits(splits, i + 1, Append(current_doc, splits[i]), docs)

\* text_splitter.split_text(text) for a text all of whose splits are shorter
\* than chunk_size, which are merged without being split further
SplitText(text) == MergeSplits(SplitOnSeparator(text), 1, <<>>, <<>>)

\* the content of a chunk as the index sees it: the head of the text, or a
\* later span
ChunkContents(spans) ==
  [i \in 1..Len(spans) |-> IF spans[i].at = 0 THEN 1 ELSE 2]

\* ------------------------------------------------------------ load and save
\* load_user_index without its try / except: whatever the two files hold is
\* handed to the caller when both exist
LoadWithoutTry(idx, meta) ==
  IF idx.state # "absent" /\ meta.state # "absent"
  THEN [index |-> idx, metadata |-> meta]
  ELSE [index |-> NoneIndex, metadata |-> EmptyDict]

\* load_user_index: both files must exist (line 71) and both must deserialize
\* (lines 73-76); every other case is (None, {})
LoadUserIndex(idx, meta) ==
  IF idx.state # "absent" /\ meta.state # "absent"
  THEN IF idx.state = "ok" /\ meta.state = "ok"
       THEN [index |-> idx, metadata |-> meta]
       ELSE [index |-> NoneIndex, metadata |-> EmptyDict]
  ELSE [index |-> NoneIndex, metadata |-> EmptyDict]

SaveOutcomes ==
  {"ok", "index_error", "index_partial", "metadata_error", "metadata_partial"}

\* faiss.write_index(index, index_path): the file after the call
WriteIndex(old, index, sv) ==
  CASE sv = "index_error" -> old
    [] sv = "index_partial" -> CorruptIndex
    [] OTHER -> index

\* open(metadata_path, 'w') and json.dump: the file after the call, which is
\* not reached when write_index raised
WriteMetadata(old, metadata, sv) ==
  CASE sv \in {"index_error", "index_partial", "metadata_error"} -> old
    [] sv = "metadata_partial" -> CorruptMetadata
    [] OTHER -> metadata

\* save_user_index: the two files after the call and the value returned
SaveUserIndex(oldIdx, oldMeta, index, metadata, sv) ==
  [index |-> WriteIndex(oldIdx, index, sv),
   metadata |-> WriteMetadata(oldMeta, metadata, sv),
   ok |-> sv = "ok"]

\* ------------------------------------------------------------------ upload
\* index.add(embeddings_array): rows appended in order
IndexAdd(index, vectors) == [index EXCEPT !.rows = index.rows \o vectors]

\* the chunk entries appended by the loop of lines 152-162
ChunkEntries(id, filename, chunks) ==
  [i \in 1..Len(chunks) |->
     [document_id |-> id,
      chunk_index |-> i - 1,
      content |-> chunks[i],
      metadata |-> [filename |-> filename,
                    chunk_number |-> i,
                    total_chunks |-> Len(chunks)]]]

\* the document entry of lines 164-171 (uploaded_at, a clock reading, is left out)
DocumentEntry(filename, size, n, start_idx) ==
  [filename |-> filename,
   size |-> size,
   chunks |-> n,
   start_index |-> start_idx,
   end_index |-> start_idx + n]

PutDocument(documents, id, doc) ==
  [x \in (DOMAIN documents) \cup {id} |-> IF x = id THEN doc ELSE documents[x]]

NotConfigured == "OpenAI API key not configured"

\* a response that ends a handler before it wrote anything
Refuse(status, detail, idx, meta, loaded, idUsed) ==
  [status |-> status, detail |-> detail, body |-> <<>>,
   index |-> idx, metadata |-> meta,
   loaded |-> loaded, saveCalled |-> FALSE, saveOk |-> FALSE, idUsed |-> idUsed]

\* upload_document without the check of line 119
UploadWithoutKeyCheck(emb, f, embedOk) ==
  IF f.filename = "" THEN "no_file"
  ELSE IF ~f.readable THEN "extract"
  ELSE IF f.chunks = <<>> THEN "no_content"
  ELSE IF ~embedOk THEN "embed"
  ELSE "none"

\* the stage at which upload_document stops before load_user_index (lines
\* 119-139), or "none"
UploadEarlyFailure(emb, f, embedOk) ==
  IF ~emb THEN "unconfigured"
  ELSE IF f.filename = "" THEN "no_file"
  ELSE IF ~f.readable THEN "extract"
  ELSE IF f.chunks = <<>> THEN "no_content"
  ELSE IF ~embedOk THEN "embed"
  ELSE "none"

\* an index.add that takes vectors of any width
AnyWidthAccepted(index, dim) == TRUE

\* index.add asserts that the vectors have the width of the index
WidthAccepted(index, dim) == index.d = dim

\* a save moved into the finally block: reached whatever stage raised after
\* the temporary file was written
SaveInFinally(stage) == stage \notin {"unconfigured", "no_file"}

\* save_user_index (line 173) is the last statement of the try block: it is
\* reached when no stage before it raised
SaveReached(stage) == stage = "none"

\* the response of an upload that stopped at `stage`; the HTTPException(400)
\* raised inside the try block is caught by `except Exception` and becomes a 500
UploadFailure(stage) ==
  CASE stage = "unconfigured" -> [status |-> 500, detail |-> NotConfigured]
    [] stage = "no_file" -> [status |-> 400, detail |-> "No file provided"]
    [] stage = "extract" ->
         [status |-> 500,
          detail |-> "Error processing document: 400: Failed to extract text"]
    [] stage = "no_content" ->
         [status |-> 500,
          detail |-> "Error processing document: 400: No text content found in file"]
    [] stage = "embed" ->
         [status |-> 500, detail |-> "Error processing document: embedding failed"]
    [] stage = "add" -> [status |-> 500, detail |-> "Error processing document: "]

\* upload_document: the response, the two files afterwards, and what it did.
\* emb, dim: the embedding backend; idx, meta: the user's files; id: uuid4();
\* f: the uploaded file (filename, size, whether its text can be extracted,
\* the chunks split_text returns); embedOk: embed_documents answers;
\* sv: how save_user_index ends.
UploadDocumentResult(emb, dim, idx, meta, id, f, embedOk, sv) ==
  LET early == UploadEarlyFailure(emb, f, embedOk)
      l == LoadUserIndex(idx, meta)
      fresh == l.index.state = "none"
      index0 == IF fresh THEN IndexFlatIP(dim) ELSE l.index
      metadata0 == IF fresh THEN NewMetadata ELSE l.metadata
      stage == IF early = "none" /\ ~WidthAccepted(index0, dim) THEN "add" ELSE early
      start_idx == Len(metadata0.chunks)
      index1 == IndexAdd(index0, EmbedAll(f.chunks, dim))
      metadata1 ==
        [state |-> "ok",
         documents |-> PutDocument(metadata0.documents, id,
                         DocumentEntry(f.filename, f.size, Len(f.chunks), start_idx)),
         chunks |-> metadata0.chunks \o ChunkEntries(id, f.filename, f.chunks)]
      saved == IF SaveReached(stage)
               THEN SaveUserIndex(idx, meta, index1, metadata1, sv)
               ELSE [index |-> idx, metadata |-> meta, ok |-> FALSE]
  IN  IF stage = "none"
      THEN [status |-> 200,
            detail |-> "Document uploaded and indexed successfully",
            body |-> [document_id |-> id, filename |-> f.filename,
                      chunks_created |-> Len(f.chunks)],
            index |-> saved.index, metadata |-> saved.metadata,
            loaded |-> TRUE, saveCalled |-> TRUE, saveOk |-> saved.ok,
            idUsed |-> TRUE]
      ELSE [status |-> UploadFailure(stage).status,
            detail |-> UploadFailure(stage).detail,
            body |-> <<>>,
            index |-> saved.index, metadata |-> saved.metadata,
            loaded |-> early = "none",
            saveCalled |-> SaveReached(stage), saveOk |-> saved.ok,
            idUsed |-> stage \notin {"unconfigured", "no_file"}]

\* ------------------------------------------------------------------ delete
\* lines 251-254: the chunks whose position is outside [start_idx, end_idx)
RECURSIVE SurvivorsFrom(_, _, _, _)
SurvivorsFrom(chunks, i, start_idx, end_idx) ==
  IF i > Len(chunks) THEN <<>>
  ELSE (IF start_idx <= i - 1 /\ i - 1 < end_idx THEN <<>> ELSE <<chunks[i]>>)
       \o SurvivorsFrom(chunks, i + 1, start_idx, end_idx)

Survivors(chunks, start_idx, end_idx) == SurvivorsFrom(chunks, 1, start_idx, end_idx)

\* a delete that leaves the documents map as it was
DelNothing(documents, id) == documents

\* del metadata["documents"][document_id]
DelDocument(documents, id) == [x \in (DOMAIN documents) \ {id} |-> documents[x]]

Contents(chunks) == [i \in 1..Len(chunks) |-> chunks[i].content]

\* lines 260-268: a fresh IndexFlatIP holding embed_query of every chunk, in order
RebuildIndex(chunks, dim) ==
  IndexAdd(IndexFlatIP(dim), EmbedAll(Contents(chunks), dim))

RemoveOutcomes == {"ok", "index_error", "metadata_error"}

\* lines 276-279: os.remove of each file that exists; rm says which call raises
RemoveFiles(idx, meta, rm) ==
  CASE rm = "index_error" /\ idx.state # "absent" ->
         [index |-> idx, metadata |-> meta, ok |-> FALSE]
    [] rm = "metadata_error" /\ meta.state # "absent" ->
         [index |-> AbsentIndex, metadata |-> meta, ok |-> FALSE]
    [] OTHER ->
         [index |-> AbsentIndex, metadata |-> AbsentMetadata, ok |-> TRUE]

\* the response delete_document gives after the save or the removal
DeleteResponse(document_id, index, metadata, saveCalled, saveOk) ==
  [status |-> 200, detail |-> "deleted successfully",
   body |-> [document_id |-> document_id],
   index |-> index, metadata |-> metadata,
   loaded |-> TRUE, saveCalled |-> saveCalled, saveOk |-> saveOk, idUsed |-> FALSE]

\* a rebuild whose embed_query calls never raise
RebuildNeverRaises(emb, embedOk) == FALSE

\* line 262, embeddings.embed_query(chunk["content"]) for a surviving chunk:
\* AttributeError when embeddings is None, the client's error when the
\* backend does not answer
RebuildRaises(emb, embedOk) == ~emb \/ ~embedOk

\* line 244 without its second test
NoDocumentsAtAll(metadata, document_id) == DOMAIN metadata.documents = {}

\* line 244: not metadata.get("documents") or document_id not in
\* metadata["documents"]
DocumentMissing(metadata, document_id) ==
  \/ DOMAIN metadata.documents = {}
  \/ document_id \notin DOMAIN metadata.documents

\* delete_document: the response, the two files afterwards, and what it did.
\* embedOk: embed_query answers; sv: how save_user_index ends; rm: how the
\* removal of the files ends.
DeleteDocumentResult(emb, dim, idx, meta, document_id, embedOk, sv, rm) ==
  LET l == LoadUserIndex(idx, meta)
      metadata == l.metadata
      missing == DocumentMissing(metadata, document_id)
      known == ~missing /\ document_id \in DOMAIN metadata.documents
      doc_data == metadata.documents[document_id]
      new_chunks == Survivors(metadata.chunks, doc_data.start_index, doc_data.end_index)
      metadata1 == [state |-> "ok",
                    documents |-> DelDocument(metadata.documents, document_id),
                    chunks |-> new_chunks]
      saved == SaveUserIndex(idx, meta, RebuildIndex(new_chunks, dim), metadata1, sv)
      removed == RemoveFiles(idx, meta, rm)
  IN  CASE missing ->
             Refuse(404, "Document not found", idx, meta, TRUE, FALSE)
        [] ~missing /\ ~known ->
             \* line 247 would raise KeyError
             Refuse(500, "Internal Server Error", idx, meta, TRUE, FALSE)
        [] known /\ new_chunks # <<>> /\ RebuildRaises(emb, embedOk) ->
             \* the exception leaves the handler before save_user_index
             Refuse(500, "Internal Server Error", idx, meta, TRUE, FALSE)
        [] known /\ new_chunks # <<>> /\ ~RebuildRaises(emb, embedOk) ->
             DeleteResponse(document_id, saved.index, saved.metadata, TRUE, saved.ok)
        [] known /\ new_chunks = <<>> /\ ~removed.ok ->
             Refuse(500, "Internal Server Error",
                    removed.index, removed.metadata, TRUE, FALSE)
        [] OTHER ->
             DeleteResponse(document_id, removed.index, removed.metadata, FALSE, FALSE)

\* ------------------------------------------------------------------ search
RECURSIVE Dot(_, _, _)
Dot(a, b, i) == IF i > Len(a) THEN 0 ELSE a[i] * b[i] + Dot(a, b, i + 1)

\* the score faiss reports for a slot it could not fill (-3.4028235e38)
NoMatchScore == 0 - 1000

\* an index that hands out its rows in storage order, whatever their score
FirstRow(rows, q, taken) ==
  CHOOSE i \in (1..Len(rows)) \ taken : \A j \in (1..Len(rows)) \ taken : i <= j

\* the row of best inner product among the rows not taken yet; ties go to the
\* lowest row
BestRow(rows, q, taken) ==
  CHOOSE i \in (1..Len(rows)) \ taken :
    \A j \in (1..Len(rows)) \ taken :
      \/ Dot(rows[i], q, 1) > Dot(rows[j], q, 1)
      \/ Dot(rows[i], q, 1) = Dot(rows[j], q, 1) /\ i <= j

\* IndexFlatIP.search(q, k): k (score, row) pairs, best first, rows counted
\* from 0, the slots beyond the rows of the index filled with row -1
RECURSIVE FaissSearchFrom(_, _, _, _)
FaissSearchFrom(rows, q, k, taken) ==
  IF k = 0 THEN <<>>
  ELSE IF Cardinality(taken) = Len(rows)
       THEN <<[score |-> NoMatchScore, idx |-> 0 - 1]>>
            \o FaissSearchFrom(rows, q, k - 1, taken)
       ELSE LET i == BestRow(rows, q, taken)
            IN  <<[score |-> Dot(rows[i], q, 1), idx |-> i - 1]>>
                \o FaissSearchFrom(rows, q, k - 1, taken \cup {i})

FaissSearch(index, q, k) == FaissSearchFrom(index.rows, q, k, {})

\* metadata["chunks"][idx] of Python: a negative idx counts from the end
PyItem(chunks, idx) == IF idx < 0 THEN chunks[Len(chunks) + idx + 1] ELSE chunks[idx + 1]

\* lines 205-213: one result per hit whose idx passes idx < len(chunks)
RECURSIVE ResultsFrom(_, _, _)
ResultsFrom(hits, chunks, n) ==
  IF n > Len(hits) THEN <<>>
  ELSE (IF hits[n].idx < Len(chunks)
        THEN <<[content |-> PyItem(chunks, hits[n].idx).content,
                metadata |-> PyItem(chunks, hits[n].idx).metadata,
                score |-> hits[n].score]>>
        ELSE <<>>)
       \o ResultsFrom(hits, chunks, n + 1)

Min(a, b) == IF a <= b THEN a ELSE b

SearchResponse(results, idx, meta) ==
  [status |-> 200, detail |-> "",
   body |-> [results |-> results, total |-> Len(results)],
   index |-> idx, metadata |-> meta,
   loaded |-> TRUE, saveCalled |-> FALSE, saveOk |-> FALSE, idUsed |-> FALSE]

\* search_documents without the early return of lines 195-196
NeverNothingToSearch(index, metadata) == FALSE

\* line 195: index is None or not metadata.get("chunks")
NothingToSearch(index, metadata) == index.state = "none" \/ metadata.chunks = <<>>

\* search_documents: the response (the files are only read)
SearchDocumentsResult(emb, dim, idx, meta, query, top_k, embedOk) ==
  LET l == LoadUserIndex(idx, meta)
      chunks == l.metadata.chunks
      k == Min(top_k, Len(chunks))
      hits == FaissSearch(l.index, Embed(query, dim), k)
  IN  IF ~emb THEN Refuse(500, NotConfigured, idx, meta, FALSE, FALSE)
      ELSE IF NothingToSearch(l.index, l.metadata) THEN SearchResponse(<<>>, idx, meta)
      ELSE IF ~embedOk \/ l.index.d # dim \/ k <= 0
           \* embed_query raises, or faiss asserts d == self.d and k > 0
           THEN Refuse(500, "Search error", idx, meta, TRUE, FALSE)
      ELSE SearchResponse(ResultsFrom(hits, chunks, 1), idx, meta)

\* -------------------------------------------------------------------- list
\* the ids of a documents map in the order the dict holds them: insertion
\* order, which is the order of the uuid4 counter
RECURSIVE IdsFrom(_, _)
IdsFrom(documents, i) ==
  IF i > MaxDocs THEN <<>>
  ELSE (IF i \in DOMAIN documents THEN <<i>> ELSE <<>>) \o IdsFrom(documents, i + 1)

DocumentInfo(id, doc_data) ==
  [id |-> id, filename |-> doc_data.filename, size |-> doc_data.size,
   chunks |-> doc_data.chunks]

\* list_documents: the response (the files are only read)
ListDocumentsResult(idx, meta) ==
  LET l == LoadUserIndex(idx, meta)
      ids == IdsFrom(l.metadata.documents, 1)
  IN  [status |-> 200, detail |-> "",
       body |-> [i \in 1..Len(ids) |-> DocumentInfo(ids[i], l.metadata.documents[ids[i]])],
       index |-> idx, metadata |-> meta,
       loaded |-> TRUE, saveCalled |-> FALSE, saveOk |-> FALSE, idUsed |-> FALSE]

\* ------------------------------------------------------ one request at a time
\* the uploads tried: no filename, a file whose text cannot be extracted, and
\* a text file for every chunk sequence the splitter can return
UploadFile(filename, readable, chunks) ==
  [filename |-> filename, size |-> 3, readable |-> readable, chunks |-> chunks,
   text |-> NoText]

Files ==
  {UploadFile("", TRUE, <<>>), UploadFile("a.txt", FALSE, <<>>)}
    \cup {UploadFile("a.txt", TRUE, c) : c \in ChunkTexts}

\* the file of a request that is not an upload
NoFile == UploadFile("", FALSE, <<>>)

\* what the environment does to one request: nothing, the embedding backend
\* does not answer, save_user_index ends in one of its failures, or one of
\* the two os.remove calls raises
Faults == {"none", "embed"} \cup (SaveOutcomes \ {"ok"}) \cup (RemoveOutcomes \ {"ok"})

EmbedOk(fault) == fault # "embed"
SaveOutcome(fault) == IF fault \in SaveOutcomes THEN fault ELSE "ok"
RemoveOutcome(fault) == IF fault \in RemoveOutcomes THEN fault ELSE "ok"

\* the environment's part of a request that meets the failure `fault`
Meets(fault) ==
  /\ fault # "none" => faults < MaxFaults
  /\ faults' = IF fault = "none" THEN faults ELSE faults + 1

NoRoundTrip == [valid |-> FALSE, index |-> AbsentIndex, metadata |-> AbsentMetadata]

\* what is kept of a completed request: the request (its document id, query
\* and top_k where it has them; its file is filled in by the upload), the
\* service's setup when it ran, the user's files before it, every
\* directory's files before it, and the result of the handler
Completed(op, u, doc, query, top_k, r, rt) ==
  [op |-> op, user |-> u, doc |-> doc, query |-> query, top_k |-> top_k,
   emb |-> embeddings, dim |-> embDim, fault |-> "none",
   file |-> NoFile,
   pre |-> [index |-> indexFile[GetUserStoragePath(u)],
            metadata |-> metadataFile[GetUserStoragePath(u)]],
   before |-> [index |-> indexFile, metadata |-> metadataFile],
   status |-> r.status, detail |-> r.detail, body |-> r.body,
   loaded |-> r.loaded, saveCalled |-> r.saveCalled, saveOk |-> r.saveOk,
   rt |-> rt]

NoRequest ==
  [op |-> "none", user |-> "", doc |-> 0, query |-> 0, top_k |-> 0,
   emb |-> FALSE, dim |-> 0, fault |-> "none",
   file |-> NoFile,
   pre |-> [index |-> AbsentIndex, metadata |-> AbsentMetadata],
   before |-> [index |-> [u \in Users |-> AbsentIndex],
               metadata |-> [u \in Users |-> AbsentMetadata]],
   status |-> 0, detail |-> "", body |-> <<>>,
   loaded |-> FALSE, saveCalled |-> FALSE, saveOk |-> FALSE,
   rt |-> NoRoundTrip]

\* ============================================================ auth service
\* src/auth-service/main.py: users in a dictionary of the process, passwords
\* hashed by passlib's bcrypt, tokens signed by python-jose.
MaxTicks == 3
MaxTokens == 2

ACCESS_TOKEN_EXPIRE_MINUTES == 30
\* the clock moves in steps of this many minutes
TickMinutes == 15

SECRET_KEY == "secret"
AuthNames == {"admin", "user", "eve"}
Passwords == {"admin123", "user123", "pw"}
Salts == {1, 2}

\* pwd_context.hash: bcrypt draws a salt and keeps it in the hash;
\* pwd_context.verify hashes the candidate with the salt of the stored hash.
\* Passwords are within the 72 bytes bcrypt reads.
Bcrypt(password, salt) == <<"bcrypt", salt, password>>
GetPasswordHash(password, salt) == [salt |-> salt, checksum |-> Bcrypt(password, salt)]
VerifyPassword(plain_password, hashed_password) ==
  Bcrypt(plain_password, hashed_password.salt) = hashed_password.checksum

UserInDB(username, password, salt) ==
  [username |-> username, email |-> username, disabled |-> FALSE,
   hashed_password |-> GetPasswordHash(password, salt)]

\* fake_users_db as the module is loaded
InitialUsers ==
  [username \in {"admin", "user"} |->
     UserInDB(username, IF username = "admin" THEN "admin123" ELSE "user123", 1)]
InitialCredentials ==
  [username \in {"admin", "user"} |->
     IF username = "admin" THEN "admin123" ELSE "user123"]

\* get_user: None for a username that is not a key
GetUser(db, username) ==
  IF username \in DOMAIN db
  THEN [found |-> TRUE, user |-> db[username]]
  ELSE [found |-> FALSE, user |-> UserInDB("", "", 1)]

\* authenticate_user without the password check
AuthenticateAnyPassword(db, username, password) == GetUser(db, username)

\* authenticate_user: the user, or False
AuthenticateUser(db, username, password) ==
  LET u == GetUser(db, username)
  IN  IF u.found /\ VerifyPassword(password, u.user.hashed_password)
      THEN u
      ELSE [found |-> FALSE, user |-> UserInDB("", "", 1)]

\* a JWT: its claims and the key its signature was made with
NoSub == "null"
Jwt(sub, exp, key) == [sub |-> sub, exp |-> exp, key |-> key]
NoToken == Jwt(NoSub, 0, "none")

\* create_access_token({"sub": sub}, expires_delta) at the time `utcnow`
CreateAccessToken(sub, utcnow, expires_delta) ==
  Jwt(sub, utcnow + expires_delta, SECRET_KEY)

\* jwt.decode(token, SECRET_KEY, algorithms=[ALGORITHM]): the signature
\* checks and exp is not in the past, or JWTError
JwtDecodes(token, time) == token.key = SECRET_KEY /\ token.exp >= time

AuthResponse(status, access_token, username) ==
  [status |-> status, access_token |-> access_token, username |-> username]

\* POST /login: the response
LoginResult(db, user_login, utcnow) ==
  LET user == AuthenticateUser(db, user_login.username, user_login.password)
  IN  IF ~user.found THEN AuthResponse(401, NoToken, "")
      ELSE AuthResponse(200, CreateAccessToken(user.user.username, utcnow,
                                               ACCESS_TOKEN_EXPIRE_MINUTES), "")

\* POST /register: the response
RegisterResult(db, user_register, utcnow) ==
  IF user_register.username \in DOMAIN db THEN AuthResponse(400, NoToken, "")
  ELSE AuthResponse(200, CreateAccessToken(user_register.username, utcnow,
                                           ACCESS_TOKEN_EXPIRE_MINUTES), "")

\* POST /verify: the response
VerifyTokenResult(db, token, time) ==
  IF ~JwtDecodes(token, time) \/ token.sub = NoSub
  THEN AuthResponse(401, NoToken, "")
  ELSE LET user == GetUser(db, token.sub)
       IN  IF ~user.found THEN AuthResponse(401, NoToken, "")
           ELSE AuthResponse(200, NoToken, user.user.username)

\* what is kept of a completed auth request
AuthCompleted(op, username, password, token, r) ==
  [op |-> op, username |-> username, password |-> password, token |-> token,
   db |-> fake_users_db, known |-> credentials, at |-> now,
   status |-> r.status, access_token |-> r.access_token, returned |-> r.username]
NoAuthRequest ==
  [op |-> "none", username |-> "", password |-> "", token |-> NoToken,
   db |-> InitialUsers, known |-> InitialCredentials, at |-> 0,
   status |-> 0, access_token |-> NoToken, returned |-> ""]

\* ================================================================= gateway
\* src/gateway/main.py: every route below depends on verify_token, which asks
\* the auth service, and then calls one service downstream.
GatewayRoutes == {"/chat", "/chat/history", "/documents/upload", "/documents"}

\* the service and path a route calls
Downstream(route) ==
  CASE route = "/chat" -> [service |-> "CHAT_SERVICE_URL", path |-> "/chat"]
    [] route = "/chat/history" ->
         [service |-> "USER_SERVICE_URL", path |-> "/chat/history"]
    [] route = "/documents/upload" ->
         [service |-> "VECTOR_SERVICE_URL", path |-> "/documents/upload"]
    [] OTHER -> [service |-> "VECTOR_SERVICE_URL", path |-> "/documents"]

NoCall == [made |-> FALSE, service |-> "", path |-> "", username |-> ""]
Call(route, username) ==
  [made |-> TRUE, service |-> Downstream(route).service,
   path |-> Downstream(route).path, username |-> username]

\* a gateway that passes on the username found in the client's request
ClientUsername(user, client) == client

\* user["username"], user being what verify_token returned (lines 118, 138,
\* 168, 189); whatever username the client wrote in its body or query string
\* is not read
DownstreamUsername(user, client) == user

\* the request in flight: where its handler is, what the client sent (route,
\* bearer token, a username of its own choosing), what /verify answered,
\* the call made downstream, the status returned to the client
GatewayRequest(pc_, route, token, client, verify_status, user, call, status) ==
  [pc |-> pc_, route |-> route, token |-> token, client |-> client,
   verify_status |-> verify_status, user |-> user, call |-> call, status |-> status]
NoGatewayRequest == GatewayRequest("idle", "", NoToken, "", 0, "", NoCall, 0)

\* ============================================================ user service
\* src/user-service/main.py over the tables of src/init_database.py: users
\* (username unique), chat_sessions (session_id unique, user_id), and
\* chat_messages (session_id refers to chat_sessions.id).
MaxMessages == 2
MaxSessions == 2

ChatUsers == {"u", "v"}
SessionIds == {"s1", "s2"}
\* the timestamps sent with a message: two that parse, and one that
\* datetime.fromisoformat rejects
BadTimestamp == 0
Timestamps == {BadTimestamp, 1, 2}

\* id SERIAL PRIMARY KEY: the rows of a table and the ids handed out so far
EmptyTables ==
  [users |-> <<>>, chat_sessions |-> <<>>, chat_messages |-> <<>>,
   sessions_made |-> 0, messages_made |-> 0]

\* the rows of a sequence that satisfy Test, in order
RECURSIVE Filter(_, _, _)
Filter(rows, Test(_), i) ==
  IF i > Len(rows) THEN <<>>
  ELSE (IF Test(rows[i]) THEN <<rows[i]>> ELSE <<>>) \o Filter(rows, Test, i + 1)

\* db.query(User).filter(User.username == username).first()
UserNamed(t, username) ==
  LET IsNamed(row) == row.username = username
  IN  Filter(t.users, IsNamed, 1)

\* a lookup of the session by session_id and owner
SessionOfUser(t, session_id, user_id) ==
  LET IsIt(row) == row.session_id = session_id /\ row.user_id = user_id
  IN  Filter(t.chat_sessions, IsIt, 1)

\* db.query(ChatSession).filter(ChatSession.session_id ==
\* message.session_id).first(), lines 76-78: whoever owns the session
SessionToSaveIn(t, session_id, user_id) ==
  LET IsIt(row) == row.session_id = session_id
  IN  Filter(t.chat_sessions, IsIt, 1)

UserResponse(status, body) == [status |-> status, body |-> body]

\* POST /chat/save: the tables after it, and the response
SaveChatMessageResult(t, message) ==
  LET found == UserNamed(t, message.username)
      user == IF found # <<>> THEN found[1]
              ELSE [id |-> Len(t.users) + 1, username |-> message.username]
      t1 == IF found # <<>> THEN t ELSE [t EXCEPT !.users = Append(@, user)]
      sessions == SessionToSaveIn(t1, message.session_id, user.id)
      session == IF sessions # <<>> THEN sessions[1]
                 ELSE [id |-> t1.sessions_made + 1, session_id |-> message.session_id,
                       user_id |-> user.id]
      t2 == IF sessions # <<>> THEN t1
            ELSE [t1 EXCEPT !.chat_sessions = Append(@, session),
                            !.sessions_made = @ + 1]
      chat_message == [id |-> t2.messages_made + 1, session_id |-> session.id,
                       user_message |-> message.user_message,
                       ai_response |-> message.ai_response,
                       timestamp |-> message.timestamp]
  IN  IF message.timestamp = BadTimestamp
      \* line 90 raises ValueError after the commits of lines 73 and 83
      THEN [tables |-> t2, made |-> FALSE, response |-> UserResponse(500, <<>>)]
      ELSE [tables |-> [t2 EXCEPT !.chat_messages = Append(@, chat_message),
                                  !.messages_made = @ + 1],
            made |-> TRUE,
            response |-> UserResponse(200, <<>>)]

\* order_by(ChatMessage.timestamp): the rows by timestamp, rows of one
\* timestamp by id
RECURSIVE OrderByTimestamp(_)
OrderByTimestamp(rows) ==
  IF rows = <<>> THEN <<>>
  ELSE LET first == CHOOSE i \in 1..Len(rows) :
                      \A j \in 1..Len(rows) :
                        \/ rows[i].timestamp < rows[j].timestamp
                        \/ rows[i].timestamp = rows[j].timestamp
                             /\ rows[i].id <= rows[j].id
           NotFirst(row) == row.id # rows[first].id
       IN  <<rows[first]>> \o OrderByTimestamp(Filter(rows, NotFirst, 1))

ChatSessionResponse(t, session) ==
  LET InSession(row) == row.session_id = session.id
      messages == OrderByTimestamp(Filter(t.chat_messages, InSession, 1))
  IN  [session_id |-> session.session_id,
       messages |-> [i \in 1..Len(messages) |->
                       [id |-> messages[i].id,
                        user_message |-> messages[i].user_message,
                        ai_response |-> messages[i].ai_response,
                        timestamp |-> messages[i].timestamp]]]

\* GET /chat/history: the response; session_id is "" when the parameter is
\* not given
GetChatHistoryResult(t, username, session_id) ==
  LET found == UserNamed(t, username)
      Wanted(row) == /\ row.user_id = found[1].id
                     /\ session_id # "" => row.session_id = session_id
      sessions == Filter(t.chat_sessions, Wanted, 1)
  IN  IF found = <<>> THEN UserResponse(200, <<>>)
      ELSE UserResponse(200, [i \in 1..Len(sessions) |->
                                ChatSessionResponse(t, sessions[i])])

\* DELETE /chat/history/{session_id}: the tables after it, and the response
DeleteChatSessionResult(t, session_id, username) ==
  LET found == UserNamed(t, username)
      sessions == SessionOfUser(t, session_id, found[1].id)
      NotInSession(row) == row.session_id # sessions[1].id
      NotTheSession(row) == row.id # sessions[1].id
  IN  IF found = <<>> \/ sessions = <<>>
      THEN [tables |-> t, response |-> UserResponse(404, <<>>)]
      ELSE [tables |-> [t EXCEPT !.chat_messages = Filter(@, NotInSession, 1),
                                 !.chat_sessions = Filter(@, NotTheSession, 1)],
            response |-> UserResponse(200, <<>>)]

UserCompleted(op, username, session_id, r) ==
  [op |-> op, username |-> username, session_id |-> session_id,
   status |-> r.status, body |-> r.body]
NoUserRequest == UserCompleted("none", "", "", UserResponse(0, <<>>))

\* ============================================================ chat service
\* src/chat-service/main.py: the conversation memory of a session lives in
\* Redis under memory:<session_id> when redis_client is set, and in the
\* dictionary memory_store of the process.
MaxMemory == 3

\* the session ids of the requests: one the client chooses, and the ones
\* uuid4 draws for a request without session_id
Uuids == {"uuid1"}
ChatSessionIds == {"s1"} \cup Uuids
NoSessionId == ""

NoValue == [present |-> FALSE, messages |-> <<>>]
Value(messages) == [present |-> TRUE, messages |-> messages]

\* OPENAI_API_KEY and redis_client before the module is loaded
NotStarted == [started |-> FALSE, key |-> FALSE, redis_client |-> FALSE]

HumanMessage(content) == [type |-> "human", content |-> content]
AIMessage(content) == [type |-> "ai", content |-> content]

\* enhanced_prompt = f"{context}User question: {request.message}"
EnhancedPrompt(context, message) == <<context, "User question: ", message>>

\* the messages of lines 81-85 as they are read back by lines 62-66: a human
\* message for the type "human", an AI message for any other
ThroughRedis(messages) ==
  [i \in 1..Len(messages) |->
     IF messages[i].type = "human" THEN HumanMessage(messages[i].content)
     ELSE AIMessage(messages[i].content)]

\* get_memory: where the memory comes from, its messages, and memory_store
\* after the call; redis_ok is FALSE when redis_client.get raises
GetMemory(config, rds, store, session_id, redis_ok) ==
  IF config.redis_client /\ redis_ok /\ rds[session_id].present
  THEN [from |-> "redis", messages |-> ThroughRedis(rds[session_id].messages),
        store |-> store]
  ELSE [from |-> "memory_store", messages |-> store[session_id].messages,
        store |-> [store EXCEPT ![session_id] = Value(@.messages)]]

\* line 136, memory.chat_memory.add_user_message(enhanced_prompt), before
\* llm.invoke at line 139
Asked(memory, prompt) == Append(memory, HumanMessage(prompt))

ChatResponse(status, session_id) == [status |-> status, session_id |-> session_id]

\* POST /chat: memory_store and Redis after it, and the response
ChatResult(config, rds, store, session_id, request, context, llm_ok, get_ok, set_ok) ==
  LET memory == GetMemory(config, rds, store, session_id, get_ok)
      asked == Asked(memory.messages, EnhancedPrompt(context, request.message))
      answered == Append(asked, AIMessage("response"))
      Kept(messages) ==
        IF memory.from = "memory_store"
        THEN [memory.store EXCEPT ![session_id] = Value(messages)]
        ELSE memory.store
  IN  IF ~config.key
      THEN [redis |-> rds, memory_store |-> store, from |-> "",
            response |-> ChatResponse(500, NoSessionId)]
      ELSE IF ~llm_ok
      THEN [redis |-> rds, memory_store |-> Kept(asked), from |-> memory.from,
            response |-> ChatResponse(500, NoSessionId)]
      ELSE [redis |-> IF config.redis_client /\ set_ok
                      THEN [rds EXCEPT ![session_id] = Value(answered)]
                      ELSE rds,
            memory_store |-> Kept(answered), from |-> memory.from,
            response |-> ChatResponse(200, session_id)]

ChatCompleted(op, session_id, from, status, llm_ok) ==
  [op |-> op, session_id |-> session_id, from |-> from, status |-> status,
   llm_ok |-> llm_ok]
NoChatRequest == ChatCompleted("none", NoSessionId, "", 0, TRUE)

\* SpecConc: the two requests in flight, and the locals of a handler between
\* its load_user_index and the end of its writes
Procs == {1, 2}
NoLocals ==
  [op |-> "none", doc |-> 0, status |-> 0, served |-> 0,
   index |-> AbsentIndex, metadata |-> AbsentMetadata]

\* the locals of a handler that has something to write, and of one that has
\* returned (its index and metadata are dropped)
Locals(p, op, doc, r) ==
  [op |-> op, doc |-> doc, status |-> r.status, served |-> req[p].served + 1,
   index |-> IF r.status = 200 THEN r.index ELSE AbsentIndex,
   metadata |-> IF r.status = 200 THEN r.metadata ELSE AbsentMetadata]

Returned(locals) ==
  [locals EXCEPT !.index = AbsentIndex, !.metadata = AbsentMetadata]

Idle == \A p \in Procs : pc[p] = "idle"

Init ==
  /\ embeddings \in BOOLEAN
  /\ embDim \in Dims
  /\ indexFile = [u \in Users |-> AbsentIndex]
  /\ metadataFile = [u \in Users |-> AbsentMetadata]
  /\ nextId = 1
  /\ last = NoRequest
  /\ faults = 0
  /\ restarts = 0
  /\ live = [u \in Users |-> {}]
  /\ pc = [p \in Procs |-> "idle"]
  /\ req = [p \in Procs |-> NoLocals]
  /\ fake_users_db = InitialUsers
  /\ now = 0
  /\ issued = {}
  /\ credentials = InitialCredentials
  /\ authLast = NoAuthRequest
  /\ gw = NoGatewayRequest
  /\ tables = EmptyTables
  /\ savedBy = <<>>
  /\ userLast = NoUserRequest
  /\ chatConfig = NotStarted
  /\ redis = [s \in ChatSessionIds |-> NoValue]
  /\ memory_store = [s \in ChatSessionIds |-> NoValue]
  /\ chatLast = NoChatRequest

\* POST /documents/upload. uuid4() is modelled by a counter that moves on
\* when the id leaves the handler (in the response or in the metadata): an id
\* drawn by a request that failed is never seen again.
UploadDocument(u, f, fault) ==
  LET r == UploadDocumentResult(embeddings, embDim, indexFile[GetUserStoragePath(u)],
                                metadataFile[GetUserStoragePath(u)],
                                nextId, f, EmbedOk(fault), SaveOutcome(fault))
  IN  /\ fault \in {"none", "embed"} \cup SaveOutcomes
      /\ Meets(fault)
      /\ r.idUsed => nextId <= MaxDocs
      /\ indexFile' = [indexFile EXCEPT ![GetUserStoragePath(u)] = r.index]
      /\ metadataFile' = [metadataFile EXCEPT ![GetUserStoragePath(u)] = r.metadata]
      /\ nextId' = IF r.status = 200 THEN nextId + 1 ELSE nextId
      /\ last' = [Completed("upload", u, IF r.idUsed THEN nextId ELSE 0, 0, 0, r,
                             NoRoundTrip) EXCEPT !.file = f, !.fault = fault]
      /\ live' = IF r.status = 200
                 THEN [live EXCEPT ![GetUserStoragePath(u)] = @ \cup {nextId}]
                 ELSE live
      /\ UNCHANGED <<otherServices, embeddings, embDim, restarts, pc, req>>

\* the files before the upload that this delete undoes, when the request
\* before it was the successful upload of document_id by the same user
RoundTripOf(u, document_id) ==
  IF last.op = "upload" /\ last.user = u /\ last.status = 200 /\ last.doc = document_id
  THEN [valid |-> TRUE, index |-> last.pre.index, metadata |-> last.pre.metadata]
  ELSE NoRoundTrip

\* DELETE /documents/{document_id}
DeleteDocument(u, document_id, fault) ==
  LET r == DeleteDocumentResult(embeddings, embDim, indexFile[GetUserStoragePath(u)],
                                metadataFile[GetUserStoragePath(u)],
                                document_id, EmbedOk(fault), SaveOutcome(fault),
                                RemoveOutcome(fault))
  IN  /\ Meets(fault)
      /\ indexFile' = [indexFile EXCEPT ![GetUserStoragePath(u)] = r.index]
      /\ metadataFile' = [metadataFile EXCEPT ![GetUserStoragePath(u)] = r.metadata]
      /\ last' = [Completed("delete", u, document_id, 0, 0, r,
                            RoundTripOf(u, document_id)) EXCEPT !.fault = fault]
      /\ live' = IF r.status = 200
                 THEN [live EXCEPT ![GetUserStoragePath(u)] = @ \ {document_id}]
                 ELSE live
      /\ UNCHANGED <<otherServices, embeddings, embDim, nextId, restarts, pc, req>>

\* POST /search
SearchDocuments(u, query, top_k, fault) ==
  LET r == SearchDocumentsResult(embeddings, embDim, indexFile[GetUserStoragePath(u)],
                                metadataFile[GetUserStoragePath(u)],
                                 query, top_k, EmbedOk(fault))
  IN  /\ fault \in {"none", "embed"}
      /\ Meets(fault)
      /\ last' = [Completed("search", u, 0, query, top_k, r, NoRoundTrip)
                    EXCEPT !.fault = fault]
      /\ UNCHANGED <<otherServices, embeddings, embDim, indexFile, metadataFile, nextId, restarts, live,
                     pc, req>>

\* GET /documents
ListDocuments(u) ==
  LET r == ListDocumentsResult(indexFile[GetUserStoragePath(u)],
                               metadataFile[GetUserStoragePath(u)])
  IN  /\ last' = Completed("list", u, 0, 0, 0, r, NoRoundTrip)
      /\ UNCHANGED <<otherServices, embeddings, embDim, indexFile, metadataFile, nextId, faults, restarts,
                     live, pc, req>>

\* the service is started again with another OPENAI_API_KEY setting or another
\* embedding model; the storage directory stays
Restart(key, d) ==
  /\ <<key, d>> # <<embeddings, embDim>>
  /\ restarts < MaxRestarts
  /\ restarts' = restarts + 1
  /\ embeddings' = key
  /\ embDim' = d
  /\ last' = [NoRequest EXCEPT !.op = "restart"]
  /\ UNCHANGED <<otherServices, indexFile, metadataFile, nextId, faults, live, pc, req>>

\* the requests of one user
Requests(u) ==
  \/ \E f \in Files, fault \in Faults : UploadDocument(u, f, fault)
  \/ \E d \in DocIds, fault \in Faults : DeleteDocument(u, d, fault)
  \/ \E q \in Texts, k \in TopKs, fault \in Faults : SearchDocuments(u, q, k, fault)
  \/ ListDocuments(u)

\* one user's requests, one at a time, across failures and restarts
Next ==
  \/ Requests("u")
  \/ \E key \in BOOLEAN, d \in Dims : Restart(key, d)

Spec == Init /\ [][Next]_vars

\* ------------------------------------------------------------ several users
\* The requests of every username, one at a time, on a service that meets no
\* failure and is not restarted.
RequestsOf(username) ==
  \/ \E f \in Files : UploadDocument(username, f, "none")
  \/ \E d \in DocIds : DeleteDocument(username, d, "none")
  \/ \E q \in Texts, k \in TopKs : SearchDocuments(username, q, k, "none")
  \/ ListDocuments(username)

NextUsers == \E username \in Usernames : RequestsOf(username)

SpecUsers == Init /\ [][NextUsers]_vars

\* ------------------------------------------------------ uploads of plain text
\* The plain-text files that are uploaded: texts without whitespace of the
\* lengths around the chunk boundaries, texts of paragraphs, blank texts.
PlainTexts ==
  {Run(n) : n \in {0, 1, 1000, 1001, 1800, 1801, 2600, 2601, 3000}}
    \cup {Paragraphs(lens) : lens \in {<<100, 100, 100>>, <<300, 300, 300, 300>>,
                                       <<749, 749, 748, 748>>,
                                       <<999, 997, 994, 1, 1>>,
                                       <<599, 598, 598, 598, 599>>}}
    \cup {Blank(n) : n \in {10, 3000}}

\* the upload of a .txt file holding `text`: extract_text_from_file reads it
\* whole and split_text cuts it
FileOfText(text) ==
  [UploadFile("a.txt", TRUE, ChunkContents(SplitText(text)))
     EXCEPT !.text = text, !.size = TextLength(text)]

\* the .txt files that are uploaded
TextFiles == {FileOfText(text) : text \in PlainTexts}

\* uploads of plain-text files of one user, and the listing of what they left
NextSplit ==
  \/ \E f \in TextFiles : UploadDocument("u", f, "none")
  \/ ListDocuments("u")

SpecSplit == Init /\ [][NextSplit]_vars

\* ------------------------------------------------- two requests in flight
\* The handlers of two requests of user "u", run by two workers over the same
\* STORAGE_PATH: nothing in the code orders them. A handler is cut where it
\* touches the files: load_user_index (both reads, with the computation that
\* follows), each of the two writes of save_user_index, each of the two
\* os.remove calls. No failure of the backend or of the file system here.

\* upload_document up to its call of save_user_index
BeginUpload(p, f) ==
  LET r == UploadDocumentResult(embeddings, embDim, indexFile["u"], metadataFile["u"],
                                nextId, f, TRUE, "ok")
  IN  /\ pc[p] = "idle"
      /\ req[p].served < MaxServed
      /\ r.idUsed => nextId <= MaxDocs
      /\ nextId' = IF r.status = 200 THEN nextId + 1 ELSE nextId
      /\ req' = [req EXCEPT ![p] = Locals(p, "upload", nextId, r)]
      /\ pc' = [pc EXCEPT ![p] = IF r.saveCalled THEN "write_index" ELSE "idle"]
      /\ UNCHANGED <<otherServices, embeddings, embDim, indexFile, metadataFile, last, faults, restarts, live>>

\* delete_document up to its call of save_user_index or of os.remove
BeginDelete(p, document_id) ==
  LET r == DeleteDocumentResult(embeddings, embDim, indexFile["u"], metadataFile["u"],
                                document_id, TRUE, "ok", "ok")
  IN  /\ pc[p] = "idle"
      /\ req[p].served < MaxServed
      /\ req' = [req EXCEPT ![p] = Locals(p, "delete", document_id, r)]
      /\ pc' = [pc EXCEPT ![p] = IF r.status # 200 THEN "idle"
                                 ELSE IF r.saveCalled THEN "write_index"
                                 ELSE "remove_index"]
      /\ UNCHANGED <<otherServices, embeddings, embDim, indexFile, metadataFile, nextId, last, faults,
                     restarts, live>>

\* faiss.write_index(index, index_path), line 88
StepWriteIndex(p) ==
  /\ pc[p] = "write_index"
  /\ indexFile' = [indexFile EXCEPT !["u"] = WriteIndex(@, req[p].index, "ok")]
  /\ pc' = [pc EXCEPT ![p] = "write_metadata"]
  /\ UNCHANGED <<otherServices, embeddings, embDim, metadataFile, nextId, last, faults, restarts, live, req>>

\* json.dump(metadata, f), lines 89-90, after which the handler returns
StepWriteMetadata(p) ==
  /\ pc[p] = "write_metadata"
  /\ metadataFile' = [metadataFile EXCEPT !["u"] = WriteMetadata(@, req[p].metadata, "ok")]
  /\ pc' = [pc EXCEPT ![p] = "idle"]
  /\ req' = [req EXCEPT ![p] = Returned(@)]
  /\ UNCHANGED <<otherServices, embeddings, embDim, indexFile, nextId, last, faults, restarts, live>>

\* lines 276-277: the index file is removed if it exists
StepRemoveIndex(p) ==
  /\ pc[p] = "remove_index"
  /\ indexFile' = [indexFile EXCEPT !["u"] = AbsentIndex]
  /\ pc' = [pc EXCEPT ![p] = "remove_metadata"]
  /\ UNCHANGED <<otherServices, embeddings, embDim, metadataFile, nextId, last, faults, restarts, live, req>>

\* lines 278-279: the metadata file is removed if it exists, and the handler
\* returns
StepRemoveMetadata(p) ==
  /\ pc[p] = "remove_metadata"
  /\ metadataFile' = [metadataFile EXCEPT !["u"] = AbsentMetadata]
  /\ pc' = [pc EXCEPT ![p] = "idle"]
  /\ req' = [req EXCEPT ![p] = Returned(@)]
  /\ UNCHANGED <<otherServices, embeddings, embDim, indexFile, nextId, last, faults, restarts, live>>

NextConc ==
  \E p \in Procs :
    \/ \E f \in Files : BeginUpload(p, f)
    \/ \E d \in DocIds : BeginDelete(p, d)
    \/ StepWriteIndex(p)
    \/ StepWriteMetadata(p)
    \/ StepRemoveIndex(p)
    \/ StepRemoveMetadata(p)

SpecConc == Init /\ [][NextConc]_vars

\* ------------------------------------------------------------ auth service
\* The requests of the auth service, one at a time (the handlers have no
\* await), the clock, and the restart of the process.
UserLogin(username, password) == [username |-> username, password |-> password]

\* /login can return a token: it is one already returned, or there is room
CanIssue(r, username) ==
  r.status = 200 =>
    \/ [token |-> r.access_token, username |-> username] \in issued
    \/ Cardinality(issued) < MaxTokens

Issue(r, username) ==
  IF r.status = 200
  THEN issued \cup {[token |-> r.access_token, username |-> username]}
  ELSE issued

\* POST /login
LoginForAccessToken(username, password) ==
  LET r == LoginResult(fake_users_db, UserLogin(username, password), now)
  IN  /\ CanIssue(r, username)
      /\ issued' = Issue(r, username)
      /\ authLast' = AuthCompleted("login", username, password, NoToken, r)
      /\ UNCHANGED <<vectorVars, gatewayVars, userVars, chatVars,
                     fake_users_db, now, credentials>>

\* POST /register
RegisterUser(username, password, salt) ==
  LET r == RegisterResult(fake_users_db, UserLogin(username, password), now)
  IN  /\ fake_users_db' =
           IF r.status = 200
           THEN [u \in DOMAIN fake_users_db \cup {username} |->
                   IF u = username THEN UserInDB(username, password, salt)
                   ELSE fake_users_db[u]]
           ELSE fake_users_db
      /\ credentials' =
           IF r.status = 200
           THEN [u \in DOMAIN credentials \cup {username} |->
                   IF u = username THEN password ELSE credentials[u]]
           ELSE credentials
      /\ authLast' = AuthCompleted("register", username, password, NoToken, r)
      /\ UNCHANGED <<vectorVars, gatewayVars, userVars, chatVars, now, issued>>

\* the tokens a client can present: the ones /login returned, one signed with
\* another key, one signed with SECRET_KEY that carries no sub
FarAhead == (MaxTicks + 1) * TickMinutes
PresentedTokens ==
  {t.token : t \in issued}
    \cup {Jwt("admin", FarAhead, "forged"), Jwt(NoSub, FarAhead, SECRET_KEY)}

\* every token there is
AllTokens ==
  {Jwt(sub, exp, key) :
     sub \in AuthNames \cup {NoSub},
     exp \in {k * TickMinutes + ACCESS_TOKEN_EXPIRE_MINUTES : k \in 0..MaxTicks}
               \cup {FarAhead},
     key \in {SECRET_KEY, "forged"}}

\* POST /verify
VerifyToken(token) ==
  LET r == VerifyTokenResult(fake_users_db, token, now)
  IN  /\ token \in PresentedTokens
      /\ authLast' = AuthCompleted("verify", "", "", token, r)
      /\ UNCHANGED <<vectorVars, gatewayVars, userVars, chatVars,
                     fake_users_db, now, issued, credentials>>

\* time passes
Tick ==
  /\ now < MaxTicks * TickMinutes
  /\ now' = now + TickMinutes
  /\ UNCHANGED <<vectorVars, gatewayVars, userVars, chatVars,
                 fake_users_db, issued, credentials, authLast>>

\* the auth service is started again: fake_users_db is the dictionary of the
\* module again, the tokens handed out stay with the clients
AuthRestart ==
  /\ fake_users_db # InitialUsers
  /\ fake_users_db' = InitialUsers
  /\ credentials' = InitialCredentials
  /\ authLast' = [NoAuthRequest EXCEPT !.op = "restart"]
  /\ UNCHANGED <<vectorVars, gatewayVars, userVars, chatVars, now, issued>>

NextAuth ==
  \/ \E username \in AuthNames, password \in Passwords :
       LoginForAccessToken(username, password)
  \/ \E username \in AuthNames, password \in Passwords, salt \in Salts :
       RegisterUser(username, password, salt)
  \/ \E token \in AllTokens : VerifyToken(token)
  \/ Tick
  \/ AuthRestart

SpecAuth == Init /\ [][NextAuth]_vars

\* ----------------------------------------------------------------- gateway
\* One request through the gateway, cut at its two awaits: the call of the
\* auth service in verify_token and the call downstream. The auth service
\* goes on registering users, and time passes, in between.

\* the tokens presented: the ones /login returned at time 0 to admin and to
\* eve, one signed with another key, one without sub, and no header at all
GatewayTokens ==
  {Jwt(sub, ACCESS_TOKEN_EXPIRE_MINUTES, SECRET_KEY) : sub \in {"admin", "eve", NoSub}}
    \cup {Jwt("admin", FarAhead, "forged"), NoToken}

\* a request arrives; HTTPBearer answers 403 when there are no credentials
GatewayReceive(route, token, client) ==
  /\ gw.pc \in {"idle", "done"}
  /\ gw' = IF token = NoToken
           THEN GatewayRequest("done", route, token, client, 0, "", NoCall, 403)
           ELSE GatewayRequest("verify", route, token, client, 0, "", NoCall, 0)
  /\ UNCHANGED <<vectorVars, authVars, userVars, chatVars>>

\* verify_token of the gateway, lines 47-65: POST /verify with the token
GatewayVerifyToken(reachable) ==
  LET response == VerifyTokenResult(fake_users_db, gw.token, now)
  IN  /\ gw.pc = "verify"
      /\ gw' = IF ~reachable
               THEN [gw EXCEPT !.pc = "done", !.status = 503]
               ELSE IF response.status # 200
               THEN [gw EXCEPT !.pc = "done", !.verify_status = response.status,
                               !.status = 401]
               ELSE [gw EXCEPT !.pc = "forward", !.verify_status = 200,
                               !.user = response.username]
      /\ UNCHANGED <<vectorVars, authVars, userVars, chatVars>>

\* the call downstream and the answer to the client: the downstream status,
\* or 503 when the service cannot be reached
GatewayForward(reachable, status) ==
  /\ gw.pc = "forward"
  /\ gw' = [gw EXCEPT !.pc = "done",
                      !.call = Call(gw.route, DownstreamUsername(gw.user, gw.client)),
                      !.status = IF reachable THEN status ELSE 503]
  /\ UNCHANGED <<vectorVars, authVars, userVars, chatVars>>

NextGateway ==
  \/ \E route \in GatewayRoutes, token \in GatewayTokens, client \in {"admin", "eve"} :
       GatewayReceive(route, token, client)
  \/ \E reachable \in BOOLEAN : GatewayVerifyToken(reachable)
  \/ \E reachable \in BOOLEAN, status \in {200, 404, 500} :
       GatewayForward(reachable, status)
  \/ \E password \in Passwords, salt \in Salts : RegisterUser("eve", password, salt)
  \/ Tick
  \/ AuthRestart

SpecGateway == Init /\ [][NextGateway]_vars

\* ------------------------------------------------------------ user service
\* The requests of the user service, one at a time.
ChatMessageSave(username, session_id, timestamp) ==
  [username |-> username, session_id |-> session_id, user_message |-> 1,
   ai_response |-> 2, timestamp |-> timestamp]

\* POST /chat/save
SaveChatMessage(username, session_id, timestamp) ==
  LET r == SaveChatMessageResult(tables, ChatMessageSave(username, session_id, timestamp))
  IN  /\ tables.messages_made < MaxMessages
      /\ r.tables.sessions_made <= MaxSessions
      /\ tables' = r.tables
      /\ savedBy' = IF r.made THEN Append(savedBy, username) ELSE savedBy
      /\ userLast' = UserCompleted("save", username, session_id, r.response)
      /\ UNCHANGED <<vectorVars, authVars, gatewayVars, chatVars>>

\* GET /chat/history
GetChatHistory(username, session_id) ==
  /\ userLast' = UserCompleted("history", username, session_id,
                               GetChatHistoryResult(tables, username, session_id))
  /\ UNCHANGED <<vectorVars, authVars, gatewayVars, chatVars, tables, savedBy>>

\* DELETE /chat/history/{session_id}
DeleteChatSession(session_id, username) ==
  LET r == DeleteChatSessionResult(tables, session_id, username)
  IN  /\ tables' = r.tables
      /\ userLast' = UserCompleted("delete", username, session_id, r.response)
      /\ UNCHANGED <<vectorVars, authVars, gatewayVars, chatVars, savedBy>>

NextHistory ==
  \/ \E username \in ChatUsers, session_id \in SessionIds, timestamp \in Timestamps :
       SaveChatMessage(username, session_id, timestamp)
  \/ \E username \in ChatUsers, session_id \in SessionIds \cup {""} :
       GetChatHistory(username, session_id)
  \/ \E username \in ChatUsers, session_id \in SessionIds :
       DeleteChatSession(session_id, username)

SpecHistory == Init /\ [][NextHistory]_vars

\* ------------------------------------------------------------ chat service
\* The requests of the chat service, one at a time. The vector service (the
\* context of a question) and the user service (the history) are its
\* environment here; so are the completion backend and Redis.

\* the module is loaded: OPENAI_API_KEY is read, Redis is pinged (lines
\* 21-35), memory_store is empty (line 44); what Redis holds stays
ChatStart(key, connected) ==
  /\ chatConfig' = [started |-> TRUE, key |-> key, redis_client |-> connected]
  /\ memory_store' = [s \in ChatSessionIds |-> NoValue]
  /\ chatLast' = ChatCompleted("start", NoSessionId, "", 0, TRUE)
  /\ UNCHANGED <<vectorVars, authVars, gatewayVars, userVars, redis>>

\* request.session_id or str(uuid.uuid4()): a uuid is an id no memory is
\* kept under
SessionOf(session_id) ==
  IF session_id # NoSessionId THEN session_id
  ELSE CHOOSE s \in Uuids : ~redis[s].present /\ ~memory_store[s].present

\* POST /chat
Chat(session_id, context, llm_ok, redis_get_ok, redis_set_ok) ==
  LET sid == SessionOf(session_id)
      r == ChatResult(chatConfig, redis, memory_store, sid,
                      [message |-> "q", session_id |-> session_id, username |-> "u"],
                      context, llm_ok, redis_get_ok, redis_set_ok)
  IN  /\ chatConfig.started
      /\ session_id = NoSessionId =>
           \E s \in Uuids : ~redis[s].present /\ ~memory_store[s].present
      /\ Len(GetMemory(chatConfig, redis, memory_store, sid, redis_get_ok).messages)
           + 2 <= MaxMemory
      /\ redis' = r.redis
      /\ memory_store' = r.memory_store
      /\ chatLast' = ChatCompleted("chat", sid, r.from, r.response.status, llm_ok)
      /\ UNCHANGED <<vectorVars, authVars, gatewayVars, userVars, chatConfig>>

\* DELETE /chat/session/{session_id}; redis_ok is FALSE when
\* redis_client.delete raises
ClearSession(session_id, redis_ok) ==
  /\ chatConfig.started
  /\ redis' = IF chatConfig.redis_client /\ redis_ok
              THEN [redis EXCEPT ![session_id] = NoValue]
              ELSE redis
  /\ memory_store' = [memory_store EXCEPT ![session_id] = NoValue]
  /\ chatLast' = ChatCompleted("clear", session_id, "", 200, TRUE)
  /\ UNCHANGED <<vectorVars, authVars, gatewayVars, userVars, chatConfig>>

\* the 3600 seconds of setex have passed: Redis drops the key
RedisExpire(session_id) ==
  /\ redis[session_id].present
  /\ redis' = [redis EXCEPT ![session_id] = NoValue]
  /\ chatLast' = ChatCompleted("expire", session_id, "", 0, TRUE)
  /\ UNCHANGED <<vectorVars, authVars, gatewayVars, userVars, chatConfig, memory_store>>

NextChat ==
  \/ \E key \in BOOLEAN, connected \in BOOLEAN : ChatStart(key, connected)
  \/ \E session_id \in {"s1", NoSessionId}, context \in {"", "Relevant context"},
        llm_ok \in BOOLEAN, redis_get_ok \in BOOLEAN, redis_set_ok \in BOOLEAN :
       Chat(session_id, context, llm_ok, redis_get_ok, redis_set_ok)
  \/ \E session_id \in ChatSessionIds, redis_ok \in BOOLEAN :
       ClearSession(session_id, redis_ok)
  \/ \E session_id \in ChatSessionIds : RedisExpire(session_id)

SpecChat == Init /\ [][NextChat]_vars

\* ======================================================================
\* Properties of Spec. `last` is the request that completed last: last.pre
\* holds its user's files before it, indexFile and metadataFile after it.

IsMutation == last.op \in {"upload", "delete"}
RowCount(u) == Len(indexFile[GetUserStoragePath(u)].rows)
ChunkCount(u) == Len(metadataFile[GetUserStoragePath(u)].chunks)
Unchanged(u) ==
  /\ indexFile[GetUserStoragePath(u)] = last.pre.index
  /\ metadataFile[GetUserStoragePath(u)] = last.pre.metadata

Readable(u) ==
  /\ indexFile[GetUserStoragePath(u)].state = "ok"
  /\ metadataFile[GetUserStoragePath(u)].state = "ok"

\* C1: after every upload_document or delete_document call that returns
\* success, the persisted index has as many rows as the persisted metadata
\* has chunks (stated for the case that both files are there and readable).
RowCountAfterSuccess ==
  (IsMutation /\ last.status = 200 /\ Readable(last.user)) =>
    RowCount(last.user) = ChunkCount(last.user)

\* C2: after every successful upload or delete, every position i of the
\* persisted chunk list has a row i in the persisted index, and that row is
\* the embedding of the content of chunk i (stated for the case that both
\* files are there and readable).
RowsAreChunkEmbeddings ==
  (IsMutation /\ last.status = 200 /\ Readable(last.user)) =>
    LET idx == indexFile[GetUserStoragePath(last.user)]
        chunks == metadataFile[GetUserStoragePath(last.user)].chunks
    IN  \A i \in 1..Len(chunks) :
          /\ i <= Len(idx.rows)
          /\ idx.rows[i] = Embed(chunks[i].content, idx.d)

\* C3: a successful delete_document(d) whose writes all succeeded leaves the
\* previous chunk list with exactly the chunks of document d removed, the
\* others in their order.
DeleteRemovesExactlyTheDocument ==
  (last.op = "delete" /\ last.status = 200 /\ (last.saveCalled => last.saveOk)) =>
    metadataFile[GetUserStoragePath(last.user)].chunks
      = SelectSeq(last.pre.metadata.chunks, LAMBDA c : c.document_id # last.doc)

\* C4: a successful upload immediately followed by a successful delete of
\* the returned document_id leaves the user's two files as they were before
\* the upload (absent if they were absent).
RoundTripRestores ==
  (last.op = "delete" /\ last.status = 200 /\ last.rt.valid) =>
    /\ indexFile[GetUserStoragePath(last.user)] = last.rt.index
    /\ metadataFile[GetUserStoragePath(last.user)] = last.rt.metadata

\* C5: an upload_document that fails, at whatever stage, leaves the user's
\* index and metadata files exactly as they were before the call.
FailedUploadWritesNothing ==
  (last.op = "upload" /\ last.status # 200) =>
    /\ Unchanged(last.user)
    /\ ~last.saveCalled

\* C5 witness: an upload that failed at the embedding call or at the index
\* append, for a user who already had chunks persisted
FailedUploadAfterEarlierUpload ==
  /\ last.op = "upload"
  /\ last.status = 500
  /\ last.detail \in {"Error processing document: embedding failed",
                      "Error processing document: "}
  /\ last.loaded
  /\ Len(last.pre.metadata.chunks) > 0

\* C6: upload_document and delete_document answer with success only if the
\* save_user_index call they made succeeded.
SuccessOnlyIfSaved ==
  (IsMutation /\ last.status = 200 /\ last.saveCalled) => last.saveOk

\* C7: whatever a save has left behind, load_user_index never returns an
\* index whose row count differs from the length of the chunk list it
\* returns with it.
LoadNeverSeesMismatch ==
  \A u \in Users :
    LET l == LoadUserIndex(indexFile[u], metadataFile[u])
    IN  l.index.state # "none" => Len(l.index.rows) = Len(l.metadata.chunks)

\* C9: with the embedding backend not configured, upload_document and
\* search_documents answer 500 'OpenAI API key not configured' without
\* calling load_user_index and without touching the files; no other failure
\* of the two handlers carries that message.
UnconfiguredShortCircuits ==
  (last.op \in {"upload", "search"}) =>
    IF ~last.emb
    THEN /\ last.status = 500
         /\ last.detail = NotConfigured
         /\ ~last.loaded
         /\ ~last.saveCalled
         /\ Unchanged(last.user)
    ELSE last.detail # NotConfigured

\* C9 witness: a search refused for the missing key although the user has an
\* index and chunks persisted
UnconfiguredSearchOverIndex ==
  /\ last.op = "search"
  /\ ~last.emb
  /\ last.status = 500
  /\ last.pre.index.state = "ok"
  /\ Len(last.pre.metadata.chunks) > 0

SearchReturnsMinTopK ==
  (last.op = "search" /\ last.emb /\ faults = 0 /\ restarts = 0) =>
    LET chunk_count == Len(last.pre.metadata.chunks)
        expected == IF Min(last.top_k, chunk_count) < 0 THEN 0
                    ELSE Min(last.top_k, chunk_count)
    IN  /\ last.status = 200
        /\ Len(last.body.results) = expected
        /\ last.body.total = expected

\* C12: an upload whose file yields no extractable content (the extraction
\* fails, or split_text returns no chunk) is answered 400 and not 5xx; an
\* upload to a service whose embedding backend is not configured is answered
\* 500.
NoContentIsBadRequest ==
  (last.op = "upload") =>
    /\ ~last.emb => last.status = 500
    /\ (/\ last.emb
        /\ last.file.filename # ""
        /\ (~last.file.readable \/ last.file.chunks = <<>>)) => last.status = 400

DeletingOnlyDocumentRemovesFiles ==
  (/\ last.op = "delete"
   /\ last.status = 200
   /\ DOMAIN last.pre.metadata.documents = {last.doc}) =>
    /\ indexFile[GetUserStoragePath(last.user)] = AbsentIndex
    /\ metadataFile[GetUserStoragePath(last.user)] = AbsentMetadata

\* C16: once the user's index exists with dimension D, an upload whose
\* embedding vectors have another width is answered with an error, the two
\* files stay as they were, and no document of that upload is registered.
WidthMismatchRejected ==
  (/\ last.op = "upload"
   /\ last.pre.index.state = "ok"
   /\ last.pre.metadata.state = "ok"
   /\ last.pre.index.d # last.dim) =>
    /\ last.status >= 400
    /\ Unchanged(last.user)
    /\ ~last.saveCalled

\* C16 witness: an upload of a readable file with chunks, its vectors
\* available, that index.add refused for their width
WidthMismatchAtAdd ==
  /\ last.op = "upload"
  /\ last.emb
  /\ last.file.readable
  /\ last.file.chunks # <<>>
  /\ last.pre.index.state = "ok"
  /\ last.pre.metadata.state = "ok"
  /\ last.pre.index.d # last.dim
  /\ last.loaded
  /\ last.status = 500
  /\ faults = 0

UploadAppendsInOrder ==
  (last.op = "upload" /\ last.status = 200) =>
    LET l == LoadUserIndex(last.pre.index, last.pre.metadata)
        start == Len(l.metadata.chunks)
        rows0 == Len(l.index.rows)
        N == Len(last.file.chunks)
        index == indexFile[GetUserStoragePath(last.user)]
        metadata == metadataFile[GetUserStoragePath(last.user)]
    IN  /\ index.state = "ok"
        /\ metadata.state = "ok"
        /\ last.body.chunks_created = N
        /\ last.doc \in DOMAIN metadata.documents
        /\ metadata.documents[last.doc].start_index = start
        /\ metadata.documents[last.doc].end_index = start + N
        /\ metadata.documents[last.doc].chunks = N
        /\ Len(metadata.chunks) = start + N
        /\ SubSeq(metadata.chunks, 1, start) = l.metadata.chunks
        /\ Len(index.rows) = rows0 + N
        /\ SubSeq(index.rows, 1, rows0) = l.index.rows
        /\ \A i \in 1..N :
             /\ metadata.chunks[start + i].document_id = last.doc
             /\ metadata.chunks[start + i].chunk_index = i - 1
             /\ metadata.chunks[start + i].content = last.file.chunks[i]
             /\ metadata.chunks[start + i].metadata.chunk_number = i
             /\ metadata.chunks[start + i].metadata.total_chunks = N
             /\ index.rows[rows0 + i] = Embed(last.file.chunks[i], last.dim)

ListedIds == {last.body[i].id : i \in 1..Len(last.body)}
RebuildAttempted ==
  LET pre == LoadUserIndex(last.pre.index, last.pre.metadata).metadata
  IN  /\ last.op = "delete"
      /\ last.doc \in DOMAIN pre.documents
      /\ Survivors(pre.chunks, pre.documents[last.doc].start_index,
                   pre.documents[last.doc].end_index) # <<>>
FailedRebuildWritesNothing ==
  (RebuildAttempted /\ (~last.emb \/ last.fault = "embed")) =>
    /\ last.status >= 400
    /\ Unchanged(last.user)
    /\ last.doc \in DOMAIN metadataFile[GetUserStoragePath(last.user)].documents

\* C25 witness: the backend did not answer the rebuild of a delete that had
\* two chunks of the document to drop and one of another to keep
RebuildFailedOverTwoDocuments ==
  /\ RebuildAttempted /\ last.fault = "embed" /\ last.emb
  /\ last.status = 500
  /\ ChunkCount(last.user) = 3
  /\ metadataFile[GetUserStoragePath(last.user)].documents[last.doc].chunks = 2

\* C24: in search_documents a row index returned by the index outside
\* 0..len(chunks)-1, the -1 of an unfilled slot included, gives no result
\* entry: there are as many results as hits whose index is in that range.
SearchHits ==
  LET l == LoadUserIndex(last.pre.index, last.pre.metadata)
  IN  FaissSearch(l.index, Embed(last.query, last.dim),
                  Min(last.top_k, Len(l.metadata.chunks)))
OutOfRangeHitsGiveNothing ==
  (last.op = "search" /\ last.status = 200 /\ last.body.results # <<>>) =>
    LET chunks == LoadUserIndex(last.pre.index, last.pre.metadata).metadata.chunks
    IN  Len(last.body.results) =
          Cardinality({n \in 1..Len(SearchHits) :
                         /\ 0 <= SearchHits[n].idx
                         /\ SearchHits[n].idx < Len(chunks)})

\* C28: in every persisted state reached by a history of successful uploads
\* and deletions, every chunk of the chunk list carries a document_id that is
\* registered in the documents map, every registered document's `chunks`
\* equals the number of chunks of the list that carry its id, and the ranges
\* [start_index, end_index) of distinct registered documents are disjoint.
MetadataConsistent ==
  (faults = 0 /\ Readable("u")) =>
    LET metadata == metadataFile["u"]
        documents == metadata.documents
        chunks == metadata.chunks
    IN  /\ \A i \in 1..Len(chunks) : chunks[i].document_id \in DOMAIN documents
        /\ \A id \in DOMAIN documents :
             documents[id].chunks =
               Cardinality({i \in 1..Len(chunks) : chunks[i].document_id = id})
        /\ \A a, b \in DOMAIN documents :
             a # b => \/ documents[a].end_index <= documents[b].start_index
                      \/ documents[b].end_index <= documents[a].start_index

\* C27: once delete_document(d) has returned success, no later search of the
\* user returns a result built from a chunk of d, whatever came before or
\* after the delete. Ids are never drawn twice, so the documents deleted with
\* success are the ids handed out that are no longer in `live`.
DeletedWithSuccess == (1..(nextId - 1)) \ live["u"]
ResultSources ==
  LET chunks == LoadUserIndex(last.pre.index, last.pre.metadata).metadata.chunks
  IN  {PyItem(chunks, SearchHits[n].idx).document_id :
         n \in {m \in 1..Len(SearchHits) : SearchHits[m].idx < Len(chunks)}}
DeletedDocumentNeverFound ==
  (last.op = "search" /\ last.user = "u" /\ last.status = 200
     /\ last.body.results # <<>>) =>
    ResultSources \cap DeletedWithSuccess = {}

\* ======================================================================
\* Properties of SpecUsers. last.before holds every directory's files before
\* the request that completed last.

\* C15: a request made for one username leaves the persisted index and
\* metadata of every other username as they were. (A handler computes its
\* response from the files of its username's directory alone, so what search
\* and list return for u depends on another username's requests exactly when
\* those requests can change u's files.)
OtherUsersUntouched ==
  (last.op \in {"upload", "delete", "search", "list"}) =>
    \A other \in Usernames \ {last.user} :
      /\ indexFile[GetUserStoragePath(other)]
           = last.before.index[GetUserStoragePath(other)]
      /\ metadataFile[GetUserStoragePath(other)]
           = last.before.metadata[GetUserStoragePath(other)]

\* ======================================================================
\* Properties of SpecSplit. last.file.text is the text of the uploaded file.

\* C19 as stated: the upload of any 3000-character plain-text file to a
\* configured service creates exactly 4 chunks and reports chunks_created = 4.
AnyText3000GivesFour ==
  (last.op = "upload" /\ last.emb /\ TextLength(last.file.text) = 3000) =>
    /\ Len(SplitText(last.file.text)) = 4
    /\ last.status = 200
    /\ last.body.chunks_created = 4

\* C19 amended: the upload of a 3000-character plain-text file that holds no
\* whitespace (no paragraph, line or word boundary to cut at) to a configured
\* service is cut into exactly 4 chunks, characters [0, 1000), [800, 1800),
\* [1600, 2600) and [2400, 3000), and reports chunks_created = 4.
UnbrokenText3000GivesFour ==
  (last.op = "upload" /\ last.emb /\ last.file.text = Run(3000)) =>
    /\ SplitText(last.file.text)
         = <<[at |-> 0, len |-> 1000], [at |-> 800, len |-> 1000],
             [at |-> 1600, len |-> 1000], [at |-> 2400, len |-> 600]>>
    /\ last.status = 200
    /\ last.body.chunks_created = 4

\* C19 witness: such an upload answered, on top of chunks of an earlier one
UnbrokenText3000Uploaded ==
  /\ last.op = "upload"
  /\ last.file.text = Run(3000)
  /\ last.status = 200
  /\ last.body.chunks_created = 4
  /\ Len(last.pre.metadata.chunks) > 0
  /\ ChunkCount(last.user) = Len(last.pre.metadata.chunks) + 4

\* ======================================================================
\* Properties of SpecConc.

\* C8: whatever the interleaving of the requests of one user, once all of
\* them have completed the persisted index has as many rows as the persisted
\* metadata has chunks.
CompletedRequestsLeaveEqualCounts ==
  (Idle /\ Readable("u")) => RowCount("u") = ChunkCount("u")


\* C26: whatever the interleaving of the load, mutate and save steps of two
\* upload_document requests of one user that both answer with success, once
\* both have returned the persisted metadata registers both documents and
\* its chunk list holds chunks of both.
TwoUploadsReturned ==
  /\ Idle
  /\ \A p \in Procs : req[p].op = "upload" /\ req[p].status = 200 /\ req[p].served = 1
NoLostUpdate ==
  TwoUploadsReturned =>
    \A p \in Procs :
      /\ req[p].doc \in DOMAIN metadataFile["u"].documents
      /\ \E i \in 1..Len(metadataFile["u"].chunks) :
           metadataFile["u"].chunks[i].document_id = req[p].doc


\* ======================================================================
\* Properties of SpecAuth. authLast is the auth request that completed last:
\* authLast.db and authLast.known are the users and their passwords before
\* it, authLast.at is the time it was served.
CorrectLogin ==
  /\ authLast.op = "login"
  /\ authLast.username \in DOMAIN authLast.db
  /\ authLast.password = authLast.known[authLast.username]
WrongLogin ==
  /\ authLast.op = "login"
  /\ \/ authLast.username \notin DOMAIN authLast.db
     \/ authLast.password # authLast.known[authLast.username]
LoginAnswers ==
  /\ CorrectLogin => authLast.status = 200 /\ authLast.access_token # NoToken
  /\ WrongLogin => authLast.status = 401 /\ authLast.access_token = NoToken
\* the users that /login returned the presented token to and that are still
\* registered
LoggedInWith(token) ==
  {i.username : i \in {j \in issued : j.token = token /\ j.username \in DOMAIN authLast.db}}

\* C22 as stated: a login of a registered user with the correct password
\* returns a token, and /verify on that token, while the user remains
\* registered, returns that username; a login with an unknown username or a
\* wrong password returns 401 and no token.
LoginVerifyRoundTrip ==
  /\ LoginAnswers
  /\ authLast.op = "verify" =>
       \A username \in LoggedInWith(authLast.token) :
         authLast.status = 200 /\ authLast.returned = username

\* C22 amended: the same, for a /verify made no later than
\* ACCESS_TOKEN_EXPIRE_MINUTES after the login, when the token expires.
LoginVerifyRoundTripBeforeExpiry ==
  /\ LoginAnswers
  /\ (authLast.op = "verify" /\ authLast.at <= authLast.token.exp) =>
       \A username \in LoggedInWith(authLast.token) :
         authLast.status = 200 /\ authLast.returned = username

\* C22 witness: /verify returns the username of a user who registered and
\* logged in, some time after the login and before the token expires
VerifiedSomeTimeAfterLogin ==
  /\ authLast.op = "verify" /\ authLast.status = 200
  /\ authLast.returned = "eve"
  /\ "eve" \in LoggedInWith(authLast.token)
  /\ authLast.at > authLast.token.exp - ACCESS_TOKEN_EXPIRE_MINUTES
  /\ authLast.at <= authLast.token.exp


\* ======================================================================
\* Properties of SpecGateway. gw is the gateway request in flight or the one
\* that completed last.

\* C23: the gateway calls a service downstream for /chat, /chat/history,
\* /documents/upload or /documents only after /verify answered 200 for the
\* presented token, the username it passes is the one /verify returned,
\* never one the client supplied, and a /verify that answered anything else
\* gives 401 and no call downstream.
ForwardsOnlyVerified ==
  /\ gw.call.made =>
       /\ gw.verify_status = 200
       /\ gw.call.username = gw.user
       /\ gw.call.username = gw.token.sub
       /\ gw.call.path = Downstream(gw.route).path
  /\ (gw.pc = "done" /\ gw.verify_status \notin {0, 200}) =>
       gw.status = 401 /\ ~gw.call.made
  /\ gw.verify_status = 0 => ~gw.call.made

\* C23 witness: a call downstream made in the name of the verified user for
\* a client that wrote another username in its request
ForwardedForVerifiedUser ==
  /\ gw.pc = "done" /\ gw.call.made
  /\ gw.route = "/documents/upload"
  /\ gw.user = "eve" /\ gw.client = "admin"
  /\ gw.call.username = "eve"


\* ======================================================================
\* Properties of SpecHistory. savedBy[id] is the username of the
\* save_chat_message call that made the message row id.

\* the username that owns the session row with this id
OwnerOf(session) ==
  LET IsIt(row) == row.id = session
      user_id == Filter(tables.chat_sessions, IsIt, 1)[1].user_id
      IsOwner(row) == row.id = user_id
  IN  Filter(tables.users, IsOwner, 1)[1].username

\* C29: get_chat_history(username = u) returns only messages saved by
\* save_chat_message calls with username u, and a save by another user with
\* a session_id that u owns adds no message to a session owned by u.
HistoryHoldsOwnMessagesOnly ==
  /\ userLast.op = "history" =>
       \A i \in 1..Len(userLast.body) :
         \A j \in 1..Len(userLast.body[i].messages) :
           savedBy[userLast.body[i].messages[j].id] = userLast.username
  /\ \A m \in 1..Len(tables.chat_messages) :
       OwnerOf(tables.chat_messages[m].session_id) = savedBy[tables.chat_messages[m].id]


\* ======================================================================
\* Properties of SpecChat.

\* a sequence of complete (human message, AI message) pairs
CompletePairs(messages) ==
  /\ Len(messages) % 2 = 0
  /\ \A i \in 1..Len(messages) :
       messages[i].type = (IF i % 2 = 1 THEN "human" ELSE "ai")

\* C30: a /chat request whose completion call raises leaves the memory of
\* the session as it was, so that after any sequence of successful and
\* failed chat requests the memory get_memory returns for a session is a
\* sequence of complete (human message, AI message) pairs, with Redis and
\* without.
MemoryIsCompletePairs ==
  chatConfig.started =>
    \A session_id \in ChatSessionIds, redis_ok \in BOOLEAN :
      CompletePairs(GetMemory(chatConfig, redis, memory_store, session_id,
                              redis_ok).messages)

====
